---- MODULE Spec2Model ----
(***************************************************************************)
(* A model of the Google Sheets MCP server: the DataFrame row and column   *)
(* operations (tools/data_operations.py, tools/column_operations.py), the  *)
(* split-JSON codec (to_json / read_json / decode_json), the sheet         *)
(* backend as gspread presents it (get_all_records, clear, update) and the *)
(* tool handlers' fetch -> mutate -> write cycle (server.py).              *)
(***************************************************************************)
EXTENDS Integers, Sequences, FiniteSets, TLC

(***************************************************************************)
(* Bounds of the model.                                                    *)
(***************************************************************************)
MaxOps == 2      \* operations applied in a row to one table
MaxCalls == 2    \* tool calls issued to the server
MaxRows == 2     \* rows of a table sent through the codec
MaxSteps == 3    \* operations a client chains

(***************************************************************************)
(* Cell values: a tagged variant over null (NaN/None), number (a rational  *)
(* n/d in lowest terms, d > 0), signed infinity and string (a sequence of  *)
(* one-character strings).                                                 *)
(***************************************************************************)
Null == [t |-> "null", n |-> 0, d |-> 1, s |-> <<>>]
Num(k) == [t |-> "num", n |-> k, d |-> 1, s |-> <<>>]
Str(chars) == [t |-> "str", n |-> 0, d |-> 1, s |-> chars]
Inf(sign) == [t |-> "inf", n |-> sign, d |-> 1, s |-> <<>>]

Abs(k) == IF k < 0 THEN -k ELSE k

RECURSIVE Gcd(_, _)
Gcd(x, y) == IF y = 0 THEN x ELSE Gcd(y, x % y)

\* The rational p/q (q # 0) in lowest terms with a positive denominator.
Frac(p, q) ==
    LET g == Gcd(Abs(p), Abs(q))
        sg == IF q < 0 THEN -1 ELSE 1
    IN [t |-> "num", n |-> sg * (p \div g), d |-> sg * (q \div g), s |-> <<>>]

IsNum(v) == v.t = "num"
IsStr(v) == v.t = "str"
IsNull(v) == v.t = "null"

(***************************************************************************)
(* Sequence helpers.                                                       *)
(***************************************************************************)
Range(seq) == {seq[i] : i \in DOMAIN seq}

RECURSIVE SetToSeq(_)
SetToSeq(S) ==
    IF S = {} THEN <<>>
    ELSE LET x == CHOOSE y \in S : TRUE IN <<x>> \o SetToSeq(S \ {x})

RECURSIVE SelectIdx(_, _, _)
\* The subsequence of seq at the positions i (in order) with keep[i].
SelectIdx(seq, keep, i) ==
    IF i > Len(seq) THEN <<>>
    ELSE (IF keep[i] THEN <<seq[i]>> ELSE <<>>) \o SelectIdx(seq, keep, i + 1)

(***************************************************************************)
(* A DataFrame: ordered column labels, row index labels, and one record    *)
(* (column label -> value) per row.                                        *)
(***************************************************************************)
DataFrame(cols, idx, recs) == [columns |-> cols, index |-> idx, rows |-> recs]

EmptyFrame == DataFrame(<<>>, <<>>, <<>>)

\* df[col] == value, elementwise: NaN/None never compare equal.
CellEq(x, value) == ~IsNull(x) /\ ~IsNull(value) /\ x = value

(***************************************************************************)
(* df.to_json(orient='split') as a JSON document: columns, index and data  *)
(* rows in column order; NaN and the infinities are written as null.       *)
(***************************************************************************)
JsonCell(v) == IF v.t \in {"null", "inf"} THEN Null ELSE v

to_json(df) ==
    [columns |-> df.columns,
     index |-> df.index,
     data |-> [i \in 1..Len(df.rows) |->
                 [j \in 1..Len(df.columns) |-> JsonCell(df.rows[i][df.columns[j]])]]]

(***************************************************************************)
(* pd.read_json(doc, orient='split') on a parsed document: the frame is    *)
(* rebuilt from columns/index/data and every column then goes through      *)
(* pandas' dtype conversion: an object column all of whose values convert  *)
(* with float() becomes numeric (the string "1" becomes the number 1).     *)
(***************************************************************************)
Digits == <<"0", "1", "2", "3", "4", "5", "6", "7", "8", "9">>

DigitVal(c) == (CHOOSE i \in 1..10 : Digits[i] = c) - 1

IsNumeric(chars) == Len(chars) > 0 /\ \A i \in 1..Len(chars) : chars[i] \in Range(Digits)

RECURSIVE ParseInt(_, _)
ParseInt(chars, acc) ==
    IF chars = <<>> THEN acc ELSE ParseInt(Tail(chars), 10 * acc + DigitVal(Head(chars)))

Convertible(v) == v.t \in {"null", "num", "inf"} \/ (IsStr(v) /\ IsNumeric(v.s))

ConvertCell(v) == IF IsStr(v) THEN Num(ParseInt(v.s, 0)) ELSE v

read_json(doc) ==
    LET ncol == Len(doc.columns)
        conv == [j \in 1..ncol |-> \A i \in 1..Len(doc.data) : Convertible(doc.data[i][j])]
        pos(c) == CHOOSE j \in 1..ncol : doc.columns[j] = c
    IN DataFrame(doc.columns, doc.index,
                 [i \in 1..Len(doc.data) |->
                    [c \in Range(doc.columns) |->
                       IF conv[pos(c)] THEN ConvertCell(doc.data[i][pos(c)])
                       ELSE doc.data[i][pos(c)]]])

(***************************************************************************)
(* Results of a row operation: a raised error, or the frame at the return  *)
(* statement together with the JSON the function returns for it.           *)
(***************************************************************************)
Raise(kind) == [err |-> kind, df |-> EmptyFrame, json |-> to_json(EmptyFrame)]
Return(df) == [err |-> "none", df |-> df, json |-> to_json(df)]

\* pd.DataFrame([row_data]): one row, the dict's keys as columns.
FrameOfDict(row_data) == DataFrame(SetToSeq(DOMAIN row_data), <<0>>, <<row_data>>)

\* pd.concat([a, b], ignore_index=True): the union of the columns (a's first),
\* all rows of a then of b with NaN where a frame lacks a column, and a fresh
\* index 0..N-1.
Widen(rec, cols) == [c \in Range(cols) |-> IF c \in DOMAIN rec THEN rec[c] ELSE Null]

\* The concatenation with its frames in the other order.
concat_swapped(a, b) ==
    LET extra == SelectIdx(b.columns, [i \in 1..Len(b.columns) |-> b.columns[i] \notin Range(a.columns)], 1)
        cols == a.columns \o extra
        recs == [i \in 1..Len(b.rows) |-> Widen(b.rows[i], cols)]
                \o [i \in 1..Len(a.rows) |-> Widen(a.rows[i], cols)]
    IN DataFrame(cols, [i \in 1..Len(recs) |-> i - 1], recs)

concat(a, b) ==
    LET extra == SelectIdx(b.columns, [i \in 1..Len(b.columns) |-> b.columns[i] \notin Range(a.columns)], 1)
        cols == a.columns \o extra
        recs == [i \in 1..Len(a.rows) |-> Widen(a.rows[i], cols)]
                \o [i \in 1..Len(b.rows) |-> Widen(b.rows[i], cols)]
    IN DataFrame(cols, [i \in 1..Len(recs) |-> i - 1], recs)

(***************************************************************************)
(* tools/data_operations.py.  Each function decodes its df_json argument   *)
(* (read_json), works on the frame df, and returns df.to_json().           *)
(***************************************************************************)
add_data(df_json, row_data) ==
    LET df == read_json(df_json)
    IN IF ~(\A col \in DOMAIN row_data : col \in Range(df.columns))
       THEN Raise("ColumnNotFound")       \* ValueError("Invalid columns: ...")
       ELSE Return(concat(df, FrameOfDict(row_data)))

\* mask = True; for col, value in row_identifier.items(): mask &= (df[col] == value)
\* The mask, were an identifier without keys to select no row.
MaskNonEmpty(df, row_identifier) ==
    [i \in 1..Len(df.rows) |->
        /\ DOMAIN row_identifier # {}
        /\ \A col \in DOMAIN row_identifier : CellEq(df.rows[i][col], row_identifier[col])]

Mask(df, row_identifier) ==
    [i \in 1..Len(df.rows) |->
        \A col \in DOMAIN row_identifier : CellEq(df.rows[i][col], row_identifier[col])]

\* mask.any()
MaskAny(mask) == \E i \in DOMAIN mask : mask[i]

\* The assignment reaching only the first row of the mask.
LocAssignFirst(df, mask, updated_data) ==
    LET first == CHOOSE i \in DOMAIN mask : mask[i] /\ \A j \in 1..(i - 1) : ~mask[j]
    IN DataFrame(df.columns, df.index,
                 [i \in 1..Len(df.rows) |->
                     IF i = first
                     THEN [c \in DOMAIN df.rows[i] |->
                             IF c \in DOMAIN updated_data THEN updated_data[c] ELSE df.rows[i][c]]
                     ELSE df.rows[i]])

\* for field, value in updated_data.items(): df.loc[mask, field] = value
LocAssign(df, mask, updated_data) ==
    DataFrame(df.columns, df.index,
              [i \in 1..Len(df.rows) |->
                  IF mask[i]
                  THEN [c \in DOMAIN df.rows[i] |->
                          IF c \in DOMAIN updated_data THEN updated_data[c] ELSE df.rows[i][c]]
                  ELSE df.rows[i]])

\* edit_data looking for the row before it validates the update columns.
edit_data_match_first(df_json, row_identifier, updated_data) ==
    LET df == read_json(df_json)
        mask == Mask(df, row_identifier)
    IN IF ~(\A col \in DOMAIN row_identifier : col \in Range(df.columns))
       THEN Raise("ColumnNotFound")
       ELSE IF ~MaskAny(mask)
       THEN Raise("RowNotFound")
       ELSE IF ~(\A col \in DOMAIN updated_data : col \in Range(df.columns))
       THEN Raise("ColumnNotFound")
       ELSE Return(LocAssign(df, mask, updated_data))

edit_data(df_json, row_identifier, updated_data) ==
    LET df == read_json(df_json)
        mask == Mask(df, row_identifier)
    IN IF ~(\A col \in DOMAIN row_identifier : col \in Range(df.columns))
       THEN Raise("ColumnNotFound")       \* ValueError("Invalid identifier columns: ...")
       ELSE IF ~(\A col \in DOMAIN updated_data : col \in Range(df.columns))
       THEN Raise("ColumnNotFound")       \* ValueError("Invalid update columns: ...")
       ELSE IF ~MaskAny(mask)
       THEN Raise("RowNotFound")          \* ValueError("No row found matching identifier")
       ELSE Return(LocAssign(df, mask, updated_data))

\* The selection dropping only the first row of the mask.
DropFirstMasked(df, mask) ==
    LET first == CHOOSE i \in DOMAIN mask : mask[i] /\ \A j \in 1..(i - 1) : ~mask[j]
        keep == [i \in DOMAIN mask |-> i # first]
    IN DataFrame(df.columns, SelectIdx(df.index, keep, 1), SelectIdx(df.rows, keep, 1))

\* df[~mask]: the rows outside the mask, with their index labels.
DropMasked(df, mask) ==
    LET keep == [i \in DOMAIN mask |-> ~mask[i]]
    IN DataFrame(df.columns, SelectIdx(df.index, keep, 1), SelectIdx(df.rows, keep, 1))

delete_data(df_json, row_identifier) ==
    LET df == read_json(df_json)
        mask == Mask(df, row_identifier)
    IN IF ~(\A col \in DOMAIN row_identifier : col \in Range(df.columns))
       THEN Raise("ColumnNotFound")       \* ValueError("Invalid identifier columns: ...")
       ELSE IF ~MaskAny(mask)
       THEN Raise("RowNotFound")          \* ValueError("No row found matching identifier")
       ELSE Return(DropMasked(df, mask))

(***************************************************************************)
(* Text of a value: str(val) / astype(str).  Integers print as their       *)
(* decimal digits and NaN as "nan"; a non-integral number n/d is written   *)
(* n "/" d, standing for its (injective) float repr.                       *)
(***************************************************************************)
RECURSIVE NatStr(_)
NatStr(k) == IF k < 10 THEN <<Digits[k + 1]>> ELSE NatStr(k \div 10) \o <<Digits[(k % 10) + 1]>>

IntStr(k) == IF k < 0 THEN <<"-">> \o NatStr(-k) ELSE NatStr(k)

ToStr(v) ==
    CASE v.t = "str" -> v.s
      [] v.t = "null" -> <<"n", "a", "n">>
      [] v.t = "inf" -> (IF v.n < 0 THEN <<"-">> ELSE <<>>) \o <<"i", "n", "f">>
      [] OTHER -> IF v.d = 1 THEN IntStr(v.n) ELSE IntStr(v.n) \o <<"/">> \o NatStr(v.d)

LowerCase == <<"a", "b", "c", "d", "e", "f", "g", "h", "i", "j", "k", "l", "m",
               "n", "o", "p", "q", "r", "s", "t", "u", "v", "w", "x", "y", "z">>
UpperCase == <<"A", "B", "C", "D", "E", "F", "G", "H", "I", "J", "K", "L", "M",
               "N", "O", "P", "Q", "R", "S", "T", "U", "V", "W", "X", "Y", "Z">>

Upper(c) == IF c \in Range(LowerCase)
            THEN UpperCase[CHOOSE i \in 1..26 : LowerCase[i] = c] ELSE c
Lower(c) == IF c \in Range(UpperCase)
            THEN LowerCase[CHOOSE i \in 1..26 : UpperCase[i] = c] ELSE c

RECURSIVE Join(_, _)
\* separator.join(parts), parts a sequence of texts.
Join(parts, separator) ==
    IF parts = <<>> THEN <<>>
    ELSE IF Len(parts) = 1 THEN parts[1]
    ELSE parts[1] \o separator \o Join(Tail(parts), separator)

(***************************************************************************)
(* Arithmetic on cells.  TypeErr marks an operation applied to a string    *)
(* (pandas raises TypeError for the whole column operation).               *)
(***************************************************************************)
TypeErr == [t |-> "err", n |-> 0, d |-> 1, s |-> <<>>]

Sign(k) == IF k > 0 THEN 1 ELSE IF k < 0 THEN -1 ELSE 0

\* x - y, elementwise as Series.__sub__: NaN propagates, inf - inf is NaN.
SubV(x, y) ==
    CASE IsStr(x) \/ IsStr(y) -> TypeErr
      [] IsNull(x) \/ IsNull(y) -> Null
      [] x.t = "inf" /\ y.t = "inf" -> IF x.n = y.n THEN Null ELSE x
      [] x.t = "inf" -> x
      [] y.t = "inf" -> Inf(-y.n)
      [] OTHER -> Frac(x.n * y.d - y.n * x.d, x.d * y.d)

\* x / y, elementwise as Series.__truediv__: division by zero gives a signed
\* infinity, 0/0 gives NaN.
DivV(x, y) ==
    CASE IsStr(x) \/ IsStr(y) -> TypeErr
      [] IsNull(x) \/ IsNull(y) -> Null
      [] x.t = "inf" /\ y.t = "inf" -> Null
      [] x.t = "inf" -> IF y.n < 0 THEN Inf(-x.n) ELSE x
      [] y.t = "inf" -> Num(0)
      [] y.n = 0 -> IF x.n = 0 THEN Null ELSE Inf(Sign(x.n))
      [] OTHER -> Frac(x.n * y.d, x.d * y.n)

RECURSIVE SumNums(_)
SumNums(vals) ==
    IF vals = <<>> THEN Num(0)
    ELSE LET r == SumNums(Tail(vals))
         IN Frac(Head(vals).n * r.d + r.n * Head(vals).d, Head(vals).d * r.d)

RECURSIVE ProdNums(_)
ProdNums(vals) ==
    IF vals = <<>> THEN Num(1)
    ELSE LET r == ProdNums(Tail(vals))
         IN Frac(Head(vals).n * r.n, Head(vals).d * r.d)

\* One row, were the values multiplied instead of added.
SumRowAsProduct(vals) == ProdNums(SelectSeq(vals, IsNum))

\* One row of DataFrame.sum(axis=1): NaN is skipped, a string is a TypeError.
SumRow(vals) ==
    LET nums == SelectSeq(vals, IsNum)
        pinf == \E i \in DOMAIN vals : vals[i] = Inf(1)
        ninf == \E i \in DOMAIN vals : vals[i] = Inf(-1)
    IN CASE \E i \in DOMAIN vals : IsStr(vals[i]) -> TypeErr
         [] pinf /\ ninf -> Null
         [] pinf -> Inf(1)
         [] ninf -> Inf(-1)
         [] OTHER -> SumNums(nums)

\* One row of DataFrame.prod(axis=1): NaN is skipped, inf * 0 is NaN.
ProdRow(vals) ==
    LET nums == SelectSeq(vals, IsNum)
        infs == SelectSeq(vals, LAMBDA v : v.t = "inf")
        p == ProdNums(nums)
        neg == Cardinality({i \in DOMAIN infs : infs[i].n < 0})
    IN CASE \E i \in DOMAIN vals : IsStr(vals[i]) -> TypeErr
         [] infs = <<>> -> p
         [] p.n = 0 -> Null
         [] OTHER -> Inf(Sign(p.n) * (IF neg % 2 = 1 THEN -1 ELSE 1))

(***************************************************************************)
(* The heap of DataFrame objects.  A column operation receives a reference *)
(* to the caller's frame; df.copy() and df.rename() allocate a new object, *)
(* df[name] = series assigns in place.                                     *)
(***************************************************************************)
Refs == 1..3
NoRef == 0

Alloc(used) == CHOOSE r \in Refs : r \notin used

copy_alias(h, df) == [heap |-> h, ref |-> df]

\* df.copy(): a new object with the same contents.
copy(h, df) ==
    LET r == Alloc({df}) IN [heap |-> [h EXCEPT ![r] = h[df]], ref |-> r]

\* df[name] = series, were a new column put first.
SetColumnFirst(h, ref, name, series) ==
    LET f == h[ref]
        cols == IF name \in Range(f.columns) THEN f.columns ELSE <<name>> \o f.columns
    IN [h EXCEPT ![ref] =
          DataFrame(cols, f.index,
                    [i \in 1..Len(f.rows) |->
                        [c \in Range(cols) |-> IF c = name THEN series[i] ELSE f.rows[i][c]]])]

\* df[name] = series: the column is added at the end (or overwritten where it
\* exists), in the object itself.
SetColumn(h, ref, name, series) ==
    LET f == h[ref]
        cols == IF name \in Range(f.columns) THEN f.columns ELSE Append(f.columns, name)
    IN [h EXCEPT ![ref] =
          DataFrame(cols, f.index,
                    [i \in 1..Len(f.rows) |->
                        [c \in Range(cols) |-> IF c = name THEN series[i] ELSE f.rows[i][c]]])]

\* params.get(key, default)
Get(params, key, default) == IF key \in DOMAIN params THEN params[key] ELSE default

ColRaise(h, kind) == [heap |-> h, err |-> kind, ref |-> NoRef]
ColReturn(h, ref) == [heap |-> h, err |-> "none", ref |-> ref]

\* The values of the reference columns in row i, in reference order.
RefVals(f, reference_columns, i) ==
    [k \in 1..Len(reference_columns) |-> f.rows[i][reference_columns[k]]]

RECURSIVE Format(_, _)
\* format_string.format(*args): a template is a sequence of characters and
\* positional placeholders "{0}", "{1}".
Format(template, args) ==
    IF template = <<>> THEN <<>>
    ELSE LET h == Head(template)
             piece == IF h = "{0}" THEN args[1] ELSE IF h = "{1}" THEN args[2] ELSE <<h>>
         IN piece \o Format(Tail(template), args)

\* The number of positional arguments a template reads; str.format raises
\* IndexError when given fewer.
ArgsNeeded(template) ==
    IF "{1}" \in Range(template) THEN 2 ELSE IF "{0}" \in Range(template) THEN 1 ELSE 0

(***************************************************************************)
(* tools/column_operations.py: add_column.                                 *)
(***************************************************************************)
\* The new column's series for a recognised formula, one value per row.
FormulaSeries(f, formula, reference_columns, params) ==
    LET separator == Get(params, "separator", <<" ">>)
        prefix == Get(params, "prefix", <<>>)
        suffix == Get(params, "suffix", <<>>)
        format_string == Get(params, "format_string", <<>>)
        texts(i) == [k \in 1..Len(reference_columns) |-> ToStr(RefVals(f, reference_columns, i)[k])]
    IN [i \in 1..Len(f.rows) |->
          CASE formula = "concat" ->
                 IF format_string # <<>>
                 THEN Str(Format(format_string, texts(i)))
                 ELSE Str(prefix \o Join(texts(i), separator) \o suffix)
            [] formula = "sum" -> SumRow(RefVals(f, reference_columns, i))
            [] formula = "multiply" -> ProdRow(RefVals(f, reference_columns, i))
            [] formula = "divide" ->
                 DivV(f.rows[i][reference_columns[1]], f.rows[i][reference_columns[2]])
            [] OTHER ->
                 SubV(f.rows[i][reference_columns[1]], f.rows[i][reference_columns[2]])]

add_column(h, df, new_column_name, formula, reference_columns, params) ==
    LET c == copy(h, df)
        df_copy == c.ref
        f == c.heap[df_copy]
        series == FormulaSeries(f, formula, reference_columns, params)
    IN IF ~(\A k \in 1..Len(reference_columns) : reference_columns[k] \in Range(f.columns))
       THEN ColRaise(c.heap, "ColumnNotFound")       \* "Invalid reference columns"
       ELSE IF new_column_name \in Range(f.columns)
       THEN ColRaise(c.heap, "ColumnAlreadyExists")  \* "Column ... already exists"
       ELSE IF formula \in {"divide", "subtract"} /\ Len(reference_columns) # 2
       THEN ColRaise(c.heap, "InvalidArgument")      \* "... requires exactly 2 reference columns"
       ELSE IF formula \notin {"concat", "sum", "multiply", "divide", "subtract"}
       THEN ColRaise(c.heap, "UnsupportedOperation") \* "Unsupported formula"
       ELSE IF formula = "concat" /\ Get(params, "format_string", <<>>) # <<>>
               /\ Len(f.rows) > 0
               /\ ArgsNeeded(Get(params, "format_string", <<>>)) > Len(reference_columns)
       THEN ColRaise(c.heap, "IndexError")           \* str.format: index out of range
       ELSE IF \E i \in 1..Len(f.rows) : series[i] = TypeErr
       THEN ColRaise(c.heap, "TypeMismatch")         \* TypeError from the arithmetic
       ELSE ColReturn(SetColumn(c.heap, df_copy, new_column_name, series), df_copy)

(***************************************************************************)
(* tools/column_operations.py: rename_column.                              *)
(***************************************************************************)
\* df.rename, were the renamed column moved to the end of the column list.
rename_moved(h, ref, live, old_name, new_name) ==
    LET f == h[ref]
        r == Alloc(live \cup {ref})
        lbl(c) == IF c = old_name THEN new_name ELSE c
        cols == SelectSeq(f.columns, LAMBDA c : c # old_name) \o <<new_name>>
        back(c) == CHOOSE o \in Range(f.columns) : lbl(o) = c
    IN [heap |-> [h EXCEPT ![r] =
                    DataFrame(cols, f.index,
                              [i \in 1..Len(f.rows) |->
                                  [c \in Range(cols) |-> f.rows[i][back(c)]]])],
        ref |-> r]

\* df.rename(columns={old_name: new_name}): a new object, the label replaced
\* where it stands, every record re-keyed.
rename(h, ref, live, old_name, new_name) ==
    LET f == h[ref]
        r == Alloc(live \cup {ref})
        lbl(c) == IF c = old_name THEN new_name ELSE c
        cols == [j \in 1..Len(f.columns) |-> lbl(f.columns[j])]
        back(c) == CHOOSE o \in Range(f.columns) : lbl(o) = c
    IN [heap |-> [h EXCEPT ![r] =
                    DataFrame(cols, f.index,
                              [i \in 1..Len(f.rows) |->
                                  [c \in Range(cols) |-> f.rows[i][back(c)]]])],
        ref |-> r]

\* rename_column without the check of the new name.
rename_column_unchecked(h, df, old_name, new_name) ==
    LET c == copy(h, df)
        df_copy == c.ref
        f == c.heap[df_copy]
    IN IF old_name \notin Range(f.columns)
       THEN ColRaise(c.heap, "ColumnNotFound")
       ELSE LET r == rename(c.heap, df_copy, {df}, old_name, new_name)
            IN ColReturn(r.heap, r.ref)

rename_column(h, df, old_name, new_name) ==
    LET c == copy(h, df)
        df_copy == c.ref
        f == c.heap[df_copy]
    IN IF old_name \notin Range(f.columns)
       THEN ColRaise(c.heap, "ColumnNotFound")       \* "Column ... not found"
       ELSE IF new_name \in Range(f.columns)
       THEN ColRaise(c.heap, "ColumnAlreadyExists")  \* "Column ... already exists"
       ELSE LET r == rename(c.heap, df_copy, {df}, old_name, new_name)
            IN ColReturn(r.heap, r.ref)

(***************************************************************************)
(* tools/column_operations.py: transform_column.                           *)
(***************************************************************************)
RECURSIVE Pow10(_)
Pow10(k) == IF k = 0 THEN 1 ELSE 10 * Pow10(k - 1)

\* Series.round(decimals) on one number (decimals >= 0): numpy rounds half to
\* even; NaN and the infinities stay.
RoundV(v, decimals) ==
    IF ~IsNum(v) THEN v
    ELSE LET m == v.n * Pow10(decimals)
             q == m \div v.d
             r == m % v.d
             up == 2 * r > v.d \/ (2 * r = v.d /\ q % 2 = 1)
         IN Frac(IF up THEN q + 1 ELSE q, Pow10(decimals))

\* pd.to_datetime on one value.  The date parser is outside the repository:
\* the texts it accepts are represented by the texts that start with "D"
\* (the rest names the date); a number is a count of nanoseconds since the
\* epoch, the date <<"0">>; NaN is NaT.  Anything else fails to parse.
DateParses(v) == v.t \in {"null", "num"} \/ (IsStr(v) /\ v.s # <<>> /\ Head(v.s) = "D")

DateId(v) == IF IsStr(v) THEN Tail(v.s) ELSE <<"0">>

\* .dt.strftime(date_format): NaT gives NaN, a date its text in that format.
StrfTime(v, date_format) == IF IsNull(v) THEN Null ELSE Str(date_format \o DateId(v))

DefaultDateFormat == <<"D">>    \* '%Y-%m-%d'

transform_column(h, df, column_name, transformation, params) ==
    LET c == copy(h, df)
        df_copy == c.ref
        f == c.heap[df_copy]
        col == [i \in 1..Len(f.rows) |-> f.rows[i][column_name]]
        decimals == Get(params, "decimals", 0)
        date_format == Get(params, "format", DefaultDateFormat)
        map(g(_)) == [i \in 1..Len(col) |-> g(col[i])]
        up(v) == Str([k \in 1..Len(ToStr(v)) |-> Upper(ToStr(v)[k])])
        low(v) == Str([k \in 1..Len(ToStr(v)) |-> Lower(ToStr(v)[k])])
        rnd(v) == RoundV(v, decimals)
        fmt(v) == StrfTime(v, date_format)
    IN IF column_name \notin Range(f.columns)
       THEN ColRaise(c.heap, "ColumnNotFound")       \* "Column ... not found"
       ELSE IF transformation = "uppercase"
       THEN ColReturn(SetColumn(c.heap, df_copy, column_name, map(up)), df_copy)
       ELSE IF transformation = "lowercase"
       THEN ColReturn(SetColumn(c.heap, df_copy, column_name, map(low)), df_copy)
       ELSE IF transformation = "round"
       THEN IF \E i \in 1..Len(col) : IsStr(col[i])
            THEN ColRaise(c.heap, "TypeMismatch")    \* TypeError: object dtype
            ELSE ColReturn(SetColumn(c.heap, df_copy, column_name, map(rnd)), df_copy)
       ELSE IF transformation = "format_date"
       THEN IF \E i \in 1..Len(col) : ~DateParses(col[i])
            THEN ColRaise(c.heap, "ParseError")      \* to_datetime raises
            ELSE ColReturn(SetColumn(c.heap, df_copy, column_name, map(fmt)), df_copy)
       ELSE ColRaise(c.heap, "UnsupportedOperation") \* "Unsupported transformation"

(***************************************************************************)
(* State.                                                                  *)
(*   heap, cur   the DataFrame objects and the one the caller holds        *)
(*   last        the last operation applied: its name and arguments, the   *)
(*               reference and contents of the caller's frame before it,   *)
(*               the frame it worked on (tbl), the error it raised or the  *)
(*               frame it returned (out)                                   *)
(*   nops        the number of operations applied so far                   *)
(*   sheet       the worksheet's cells, row by row (row 1 is the header)   *)
(*   cl          per client: the tool call in progress and where it is     *)
(*               (pc), the fetched and the updated frame, the value the    *)
(*               last call returned (ret), and when it fetched and wrote   *)
(*   writes      the number of write requests the backend has served       *)
(*   ncalls      the number of tool calls issued so far                    *)
(*   codec       a table on its way through to_json, a client's encoding   *)
(*               of the text, and decode_json                              *)
(*   sc          a client chaining operations, each on the decoded output  *)
(*               of the one before: the table it holds, the calls it made  *)
(*               and the error of the last one                             *)
(***************************************************************************)
VARIABLES heap, cur, last, nops, sheet, cl, writes, ncalls, codec, sc

opsVars == <<heap, cur, last, nops>>
srvVars == <<sheet, cl, writes, ncalls>>
vars == <<heap, cur, last, nops, sheet, cl, writes, ncalls, codec, sc>>

(***************************************************************************)
(* Inputs of the operations.                                               *)
(***************************************************************************)
Dicts(keys, vals, maxKeys) ==
    UNION {[S -> vals] : S \in {T \in SUBSET keys : Cardinality(T) <= maxKeys}}

KeyNames == {"a", "b", "z"}          \* "z" is never a column
IdDicts ==
    Dicts({"a", "z"}, {Num(1), Str(<<"x">>)}, 2)
    \cup {[c \in {"a", "b"} |-> IF c = "a" THEN Num(1) ELSE Str(<<"x">>)]}
UpdDicts ==
    Dicts({"b"}, {Num(9), Null}, 1)
    \cup {[c \in {"z"} |-> Num(9)], [c \in {"a", "b"} |-> Num(9)]}
RowDatas == Dicts(KeyNames, {Num(3)}, 2) \cup {[c \in {"a"} |-> Str(<<"1">>)]}

Formulas == {"concat", "sum", "multiply", "divide", "subtract", "median"}
RefLists == {<<"a">>, <<"a", "b">>, <<"a", "b", "a">>, <<"z">>}
NoParams == [k \in {} |-> <<>>]
ConcatParams == {NoParams, [k \in {"separator"} |-> <<"-">>],
                 [k \in {"format_string"} |-> <<"{0}", "+", "{1}">>]}
\* The calls of add_column: every formula on every reference list under the
\* new name "c", and one call under the name of an existing column.
AddColumnCalls ==
    {[new_column_name |-> "c", formula |-> f, reference_columns |-> refs, params |-> ps] :
        f \in Formulas, refs \in RefLists, ps \in {NoParams}}
    \cup {[new_column_name |-> "c", formula |-> "concat", reference_columns |-> refs, params |-> ps] :
            refs \in RefLists, ps \in ConcatParams}
    \cup {[new_column_name |-> "a", formula |-> "sum", reference_columns |-> <<"a", "b">>,
           params |-> NoParams]}
Transformations == {"uppercase", "lowercase", "round", "format_date", "titleCase"}
TransformParams(transformation) ==
    {NoParams}
    \cup (IF transformation = "round" THEN {[k \in {"decimals"} |-> 1]} ELSE {})
    \cup (IF transformation = "format_date" THEN {[k \in {"format"} |-> <<"F">>]} ELSE {})

Rec2(a, b) == [c \in {"a", "b"} |-> IF c = "a" THEN a ELSE b]

InitTables ==
    {DataFrame(<<"a", "b">>, <<0, 1, 2>>,
               <<Rec2(Num(1), Str(<<"x">>)), Rec2(Num(2), Str(<<"x">>)), Rec2(Num(1), Null)>>),
     DataFrame(<<"a", "b">>, <<0, 1>>, <<Rec2(Num(5), Num(2)), Rec2(Num(1), Num(0))>>),
     DataFrame(<<"a", "b">>, <<0, 1>>,
               <<Rec2(Num(1), Str(<<"D", "1">>)), Rec2(Num(1), Str(<<"D", "2">>))>>),
     DataFrame(<<"a", "b">>, <<>>, <<>>)}

(***************************************************************************)
(* The operations applied one after another to the caller's table.         *)
(***************************************************************************)
Gc(h, live) == [r \in Refs |-> IF r \in live THEN h[r] ELSE EmptyFrame]

InitOps ==
    /\ \E t \in InitTables : heap = [r \in Refs |-> IF r = 1 THEN t ELSE EmptyFrame]
    /\ cur = 1
    /\ last = [op |-> "none", args |-> NoParams, inp |-> NoRef, before |-> EmptyFrame,
               tbl |-> EmptyFrame, err |-> "none", out |-> EmptyFrame]
    /\ nops = 0

Clients == {1, 2}

IdleClient ==
    [pc |-> "idle", tool |-> [name |-> "none"], df |-> EmptyFrame, updated_df |-> EmptyFrame,
     ret |-> "none", startAt |-> 0, fetchAt |-> 0, clearAt |-> 0, updateAt |-> 0,
     sheet0 |-> <<>>, torn |-> FALSE]

\* The server at rest, for the specifications that do not run it.
SrvIdle ==
    /\ sheet = <<>>
    /\ cl = [p \in Clients |-> IdleClient]
    /\ writes = 0
    /\ ncalls = 0

NoResult == [err |-> "none", df |-> EmptyFrame]

\* No text is being decoded, for the specifications that do not decode.
CodecIdle ==
    codec = [stage |-> "idle", t |-> EmptyFrame, text |-> <<>>, from |-> "none",
             out |-> NoResult, legacy |-> NoResult]

\* No chain of operations is under way.
ChainIdle == sc = [t |-> EmptyFrame, trace |-> <<>>, err |-> "none"]

\* A row operation: the caller encodes its frame, calls the function and
\* decodes the JSON it returns into a new frame.
RowStep(op, args, df_json, r) ==
    LET o == Alloc({cur})
        ok == r.err = "none"
    IN /\ heap' = Gc(IF ok THEN [heap EXCEPT ![o] = read_json(r.json)] ELSE heap,
                     IF ok THEN {cur, o} ELSE {cur})
       /\ cur' = IF ok THEN o ELSE cur
       /\ last' = [op |-> op, args |-> args, inp |-> cur, before |-> heap[cur],
                   tbl |-> read_json(df_json), err |-> r.err, out |-> r.df]
       /\ nops' = nops + 1
       /\ UNCHANGED <<srvVars, codec, sc>>

\* A column operation: the caller passes its frame and holds the one returned.
ColStep(op, args, r) ==
    LET ok == r.err = "none"
    IN /\ heap' = Gc(r.heap, IF ok THEN {cur, r.ref} ELSE {cur})
       /\ cur' = IF ok THEN r.ref ELSE cur
       /\ last' = [op |-> op, args |-> args, inp |-> cur, before |-> heap[cur],
                   tbl |-> heap[cur], err |-> r.err,
                   out |-> IF ok THEN r.heap[r.ref] ELSE EmptyFrame]
       /\ nops' = nops + 1
       /\ UNCHANGED <<srvVars, codec, sc>>

OpAddRow ==
    /\ nops < MaxOps
    /\ \E row_data \in RowDatas :
         RowStep("add_row", [row_data |-> row_data], to_json(heap[cur]),
                 add_data(to_json(heap[cur]), row_data))

OpEditRow ==
    /\ nops < MaxOps
    /\ \E row_identifier \in IdDicts, updated_data \in UpdDicts :
         RowStep("edit_row", [row_identifier |-> row_identifier, updated_data |-> updated_data],
                 to_json(heap[cur]),
                 edit_data(to_json(heap[cur]), row_identifier, updated_data))

OpDeleteRow ==
    /\ nops < MaxOps
    /\ \E row_identifier \in IdDicts :
         RowStep("delete_row", [row_identifier |-> row_identifier], to_json(heap[cur]),
                 delete_data(to_json(heap[cur]), row_identifier))

OpAddColumn ==
    /\ nops < MaxOps
    /\ \E call \in AddColumnCalls :
         ColStep("add_column", call,
                 add_column(heap, cur, call.new_column_name, call.formula,
                            call.reference_columns, call.params))

OpRenameColumn ==
    /\ nops < MaxOps
    /\ \E old_name \in {"a", "z"}, new_name \in {"a", "b", "d"} :
         ColStep("rename_column", [old_name |-> old_name, new_name |-> new_name],
                 rename_column(heap, cur, old_name, new_name))

OpTransformColumn ==
    /\ nops < MaxOps
    /\ \E column_name \in {"b", "c", "z"}, transformation \in Transformations :
         \E params \in TransformParams(transformation) :
            ColStep("transform_column",
                    [column_name |-> column_name, transformation |-> transformation,
                     params |-> params],
                    transform_column(heap, cur, column_name, transformation, params))

NextOps ==
    \/ OpAddRow
    \/ OpEditRow
    \/ OpDeleteRow
    \/ OpAddColumn
    \/ OpRenameColumn
    \/ OpTransformColumn

InitOpsOnly == InitOps /\ SrvIdle /\ CodecIdle /\ ChainIdle

SpecOps == InitOpsOnly /\ [][NextOps]_vars

(***************************************************************************)
(* The sheet backend as gspread presents it.  A worksheet is its rows of   *)
(* cells; row 1 holds the column labels.                                   *)
(***************************************************************************)
EmptyCell == Str(<<>>)

HeaderCell(name) == Str(<<name>>)

\* The label a header cell gives a column.
Label(cell) == IF IsStr(cell) /\ Len(cell.s) = 1 THEN cell.s[1] ELSE "?"

\* A cell value as it is stored by update(): None leaves the cell empty.
CellOut(v) == IF v.t = "null" THEN EmptyCell ELSE v

\* A column pandas holds as floats: every value it has is a number, so a
\* missing value in it is NaN rather than None.
FloatColumn(df, c) ==
    \A i \in 1..Len(df.rows) : df.rows[i][c].t \in {"null", "num", "inf"}

\* df.values.tolist() can be sent as the JSON body of the update request: it
\* holds no NaN and no infinity.
Serialisable(df) ==
    \A i \in 1..Len(df.rows) : \A c \in Range(df.columns) :
        /\ df.rows[i][c].t # "inf"
        /\ df.rows[i][c].t = "null" => ~FloatColumn(df, c)

\* [df.columns.tolist()] + df.values.tolist()
all_values(df) ==
    <<[j \in 1..Len(df.columns) |-> HeaderCell(df.columns[j])]>>
    \o [i \in 1..Len(df.rows) |->
          [j \in 1..Len(df.columns) |-> CellOut(df.rows[i][df.columns[j]])]]

clear_noop(grid) == grid

\* worksheet.clear()
clear(grid) == <<>>

Max(x, y) == IF x > y THEN x ELSE y

\* worksheet.update('A1', values): the cells of the range starting at A1 are
\* overwritten; every other cell keeps what it held.
update(grid, values) ==
    [i \in 1..Max(Len(grid), Len(values)) |->
        LET old == IF i <= Len(grid) THEN grid[i] ELSE <<>>
            new == IF i <= Len(values) THEN values[i] ELSE <<>>
        IN [j \in 1..Max(Len(old), Len(new)) |-> IF j <= Len(new) THEN new[j] ELSE old[j]]]

\* gspread's numericise: a cell whose text is a number is returned as one.
Numericise(v) == IF IsStr(v) /\ IsNumeric(v.s) THEN Num(ParseInt(v.s, 0)) ELSE v

\* worksheet.get_all_records(): nothing when there is no row under the
\* header; otherwise one dict per row, keyed by the header, short rows
\* padded with '' and values numericised.  A header with a repeated label is
\* refused.
get_all_records(grid) ==
    IF Len(grid) <= 1 THEN [err |-> "none", keys |-> <<>>, records |-> <<>>]
    ELSE LET keys == [j \in 1..Len(grid[1]) |-> Label(grid[1][j])]
             pos(c) == CHOOSE j \in 1..Len(keys) : keys[j] = c
             cell(i, j) == IF j <= Len(grid[i]) THEN Numericise(grid[i][j]) ELSE EmptyCell
         IN IF \E j, k \in 1..Len(keys) : j # k /\ keys[j] = keys[k]
            THEN [err |-> "GSpreadException", keys |-> <<>>, records |-> <<>>]
            ELSE [err |-> "none", keys |-> keys,
                  records |-> [i \in 1..(Len(grid) - 1) |->
                                 [c \in Range(keys) |-> cell(i + 1, pos(c))]]]

\* fetch_sheet: pd.DataFrame(worksheet.get_all_records())
fetch_sheet(grid) ==
    LET got == get_all_records(grid)
    IN [err |-> got.err,
        df |-> DataFrame(got.keys, [i \in 1..Len(got.records) |-> i - 1], got.records)]

(***************************************************************************)
(* server.py: the tool handlers.  Every handler fetches the sheet, applies *)
(* its operation to the frame and writes the result back with update_sheet *)
(* (worksheet.clear() then worksheet.update()): one backend request, or    *)
(* the operation, per step; an exception ends the call and is raised to    *)
(* the client.                                                             *)
(***************************************************************************)
Dict1(k, v) == [c \in {k} |-> v]

ToolCalls ==
    {[name |-> "add_row", row_data |-> rd] :
        rd \in {Rec2(Num(7), Num(7)), Rec2(Num(8), Num(8)), Dict1("a", Num(7)),
                Dict1("z", Num(7))}}
    \cup {[name |-> "edit_row", row_identifier |-> id, updated_data |-> Dict1("b", Num(9))] :
            id \in {Dict1("a", Num(1)), Dict1("a", Num(5)), Dict1("z", Num(1))}}
    \cup {[name |-> "delete_row", row_identifier |-> id] :
            id \in {Dict1("a", Num(1)), Dict1("a", Num(5))}}
    \cup {[name |-> "add_sheet_column", new_column_name |-> c[1], formula |-> c[2],
           reference_columns |-> c[3], params |-> NoParams] :
            c \in {<<"c", "sum", <<"a", "b">>>>, <<"b", "sum", <<"a", "b">>>>,
                   <<"c", "divide", <<"a">>>>, <<"c", "median", <<"a">>>>,
                   <<"c", "sum", <<"z">>>>}}
    \cup {[name |-> "rename_sheet_column", old_name |-> c[1], new_name |-> c[2]] :
            c \in {<<"a", "c">>, <<"a", "b">>, <<"z", "c">>}}
    \cup {[name |-> "transform_sheet_column", column_name |-> c[1], transformation |-> c[2],
           params |-> NoParams] :
            c \in {<<"b", "uppercase">>, <<"z", "uppercase">>, <<"b", "reverse">>}}
    \cup {[name |-> "fetch_google_sheet"]}

MutatingTools == {"add_row", "edit_row", "delete_row", "add_sheet_column",
                  "rename_sheet_column", "transform_sheet_column"}

InitSheets ==
    {all_values(DataFrame(<<"a", "b">>, <<0, 1>>, <<Rec2(Num(1), Num(1)), Rec2(Num(2), Num(2))>>))}

\* The operation of a mutating tool on the fetched frame: the error it
\* raised, or the frame handed to update_sheet.
OneFrame(df) == [r \in Refs |-> IF r = 1 THEN df ELSE EmptyFrame]

\* The row operations of data_operations.py take and return the frame as
\* split JSON; the handler's frame goes through to_json and read_json.
RowResult(r) == [err |-> r.err, df |-> IF r.err = "none" THEN read_json(r.json) ELSE EmptyFrame]
ColResult(r) == [err |-> r.err, df |-> IF r.err = "none" THEN r.heap[r.ref] ELSE EmptyFrame]

Handler(tool, df) ==
    CASE tool.name = "add_row" -> RowResult(add_data(to_json(df), tool.row_data))
      [] tool.name = "edit_row" ->
           RowResult(edit_data(to_json(df), tool.row_identifier, tool.updated_data))
      [] tool.name = "delete_row" -> RowResult(delete_data(to_json(df), tool.row_identifier))
      [] tool.name = "add_sheet_column" ->
           ColResult(add_column(OneFrame(df), 1, tool.new_column_name, tool.formula,
                                tool.reference_columns, tool.params))
      [] tool.name = "rename_sheet_column" ->
           ColResult(rename_column(OneFrame(df), 1, tool.old_name, tool.new_name))
      [] OTHER ->
           ColResult(transform_column(OneFrame(df), 1, tool.column_name, tool.transformation,
                                      tool.params))

AfterHandlerAlwaysWrite(err) == "clear"

\* try: ... updated_df = op(df, ...); return update_sheet(...)
\* except Exception: raise -- update_sheet is reached only without an error.
AfterHandler(err) == IF err = "none" THEN "clear" ELSE "idle"

InitSrv ==
    /\ sheet \in InitSheets
    /\ cl = [p \in Clients |-> IdleClient]
    /\ writes = 0
    /\ ncalls = 0

\* The sheet and frames known to the operations, for the server's runs.
OpsIdle ==
    /\ heap = [r \in Refs |-> EmptyFrame]
    /\ cur = 1
    /\ last = [op |-> "none", args |-> NoParams, inp |-> NoRef, before |-> EmptyFrame,
               tbl |-> EmptyFrame, err |-> "none", out |-> EmptyFrame]
    /\ nops = 0

\* A client calls a tool.
Call(p) ==
    /\ cl[p].pc = "idle"
    /\ ncalls < MaxCalls
    /\ \E tool \in ToolCalls :
         cl' = [cl EXCEPT ![p] = [IdleClient EXCEPT !.pc = "fetch", !.tool = tool,
                                                    !.startAt = writes, !.sheet0 = sheet]]
    /\ ncalls' = ncalls + 1
    /\ UNCHANGED <<sheet, writes>>
    /\ UNCHANGED <<opsVars, codec, sc>>

\* df = fetch_sheet(sheet_url, tab_name); fetch_google_sheet returns it.
Fetch(p) ==
    /\ cl[p].pc = "fetch"
    /\ LET got == fetch_sheet(sheet)
       IN cl' = [cl EXCEPT ![p].df = got.df,
                           ![p].fetchAt = writes,
                           ![p].torn = \E q \in Clients \ {p} : cl[q].pc = "update",
                           ![p].pc = IF got.err # "none" \/ cl[p].tool.name = "fetch_google_sheet"
                                     THEN "idle" ELSE "operate",
                           ![p].ret = IF got.err # "none" THEN got.err
                                      ELSE IF cl[p].tool.name = "fetch_google_sheet" THEN "json"
                                      ELSE "none"]
    /\ UNCHANGED <<sheet, writes, ncalls>>
    /\ UNCHANGED <<opsVars, codec, sc>>

\* updated_df = add_data / edit_data / ... (df, ...)
Mutate(p) ==
    /\ cl[p].pc = "operate"
    /\ LET r == Handler(cl[p].tool, cl[p].df)
       IN cl' = [cl EXCEPT ![p].updated_df = r.df,
                           ![p].pc = AfterHandler(r.err),
                           ![p].ret = IF r.err = "none" THEN "none" ELSE r.err]
    /\ UNCHANGED <<sheet, writes, ncalls>>
    /\ UNCHANGED <<opsVars, codec, sc>>

\* update_sheet: worksheet.clear()
Clear(p) ==
    /\ cl[p].pc = "clear"
    /\ sheet' = clear(sheet)
    /\ writes' = writes + 1
    /\ cl' = [cl EXCEPT ![p].pc = "update", ![p].clearAt = writes + 1]
    /\ UNCHANGED ncalls
    /\ UNCHANGED <<opsVars, codec, sc>>

\* update_sheet: worksheet.update('A1', ...), then return True
Update(p) ==
    /\ cl[p].pc = "update"
    /\ Serialisable(cl[p].updated_df)
    /\ sheet' = update(sheet, all_values(cl[p].updated_df))
    /\ writes' = writes + 1
    /\ cl' = [cl EXCEPT ![p].pc = "idle", ![p].updateAt = writes + 1, ![p].ret = "True"]
    /\ UNCHANGED ncalls
    /\ UNCHANGED <<opsVars, codec, sc>>

\* A write request that fails (quota, network, a body holding NaN that cannot
\* be sent): gspread raises, and the handler raises to the client.
WriteFail(p) ==
    /\ cl[p].pc \in {"clear", "update"}
    /\ cl' = [cl EXCEPT ![p].pc = "idle", ![p].ret = "APIError"]
    /\ UNCHANGED <<sheet, writes, ncalls>>
    /\ UNCHANGED <<opsVars, codec, sc>>

Next ==
    \/ \E p \in Clients : Call(p)
    \/ \E p \in Clients : Fetch(p)
    \/ \E p \in Clients : Mutate(p)
    \/ \E p \in Clients : Clear(p)
    \/ \E p \in Clients : Update(p)
    \/ \E p \in Clients : WriteFail(p)

Init == InitSrv /\ OpsIdle /\ CodecIdle /\ ChainIdle

Spec == Init /\ [][Next]_vars

(***************************************************************************)
(* The wire text.  A text is a sequence of characters.  df.to_json writes   *)
(* the split document with ujson: no white space, strings with the quote,  *)
(* the backslash and the slash escaped.                                     *)
(***************************************************************************)
Quote == "\""

Backslash == "\\"

RECURSIVE Flatten(_)
Flatten(seqs) == IF seqs = <<>> THEN <<>> ELSE Head(seqs) \o Flatten(Tail(seqs))

\* elems joined by commas between [ and ]
Bracket(elems) ==
    <<"[">> \o Flatten([k \in 1..Len(elems) |-> IF k = 1 THEN elems[k] ELSE <<",">> \o elems[k]])
    \o <<"]">>

EscapeChar(c) == IF c \in {Quote, Backslash, "/"} THEN <<Backslash, c>> ELSE <<c>>

JsonString(chars) ==
    <<Quote>> \o Flatten([k \in 1..Len(chars) |-> EscapeChar(chars[k])]) \o <<Quote>>

JsonScalar(v) ==
    CASE v.t = "str" -> JsonString(v.s)
      [] v.t = "num" -> ToStr(v)
      [] OTHER -> <<"n", "u", "l", "l">>

\* json.dumps of a split document, as to_json writes it
dumps(doc) ==
    <<"{">> \o JsonString(<<"c", "o", "l", "u", "m", "n", "s">>) \o <<":">>
    \o Bracket([j \in 1..Len(doc.columns) |-> JsonString(<<doc.columns[j]>>)])
    \o <<",">> \o JsonString(<<"i", "n", "d", "e", "x">>) \o <<":">>
    \o Bracket([i \in 1..Len(doc.index) |-> IntStr(doc.index[i])])
    \o <<",">> \o JsonString(<<"d", "a", "t", "a">>) \o <<":">>
    \o Bracket([i \in 1..Len(doc.data) |->
                  Bracket([j \in 1..Len(doc.data[i]) |-> JsonScalar(doc.data[i][j])])])
    \o <<"}">>

\* df.to_json(orient='split') as text
to_json_text(df) == dumps(to_json(df))

(***************************************************************************)
(* The JSON reader behind pd.read_json.  A parsed value is a scalar or an  *)
(* array; next is the position after it.                                    *)
(***************************************************************************)
\* The value of a one-element set.
Only(S) == CHOOSE x \in S : TRUE

JBad == [ok |-> FALSE, k |-> "bad", v |-> Null, items |-> <<>>, next |-> 0]

JScalar(val, next) == [ok |-> TRUE, k |-> "scalar", v |-> val, items |-> <<>>, next |-> next]

JArray(items, next) == [ok |-> TRUE, k |-> "array", v |-> Null, items |-> items, next |-> next]

\* The character an escape sequence stands for; "BS", "FF" are the backspace
\* and form feed characters.
Escapes ==
    [c \in {Quote, Backslash, "/", "b", "f", "n", "r", "t"} |->
        CASE c = "b" -> "BS" [] c = "f" -> "FF" [] c = "n" -> "\n" [] c = "r" -> "\r"
          [] c = "t" -> "\t" [] OTHER -> c]

\* The string whose opening quote precedes position i.
RECURSIVE ParseString(_, _, _)
ParseString(text, i, acc) ==
    IF i > Len(text) THEN [ok |-> FALSE, s |-> <<>>, next |-> 0]
    ELSE IF text[i] = Quote THEN [ok |-> TRUE, s |-> acc, next |-> i + 1]
    ELSE IF text[i] = Backslash
         THEN IF i + 1 <= Len(text) /\ text[i + 1] \in DOMAIN Escapes
              THEN ParseString(text, i + 2, Append(acc, Escapes[text[i + 1]]))
              ELSE [ok |-> FALSE, s |-> <<>>, next |-> 0]
    ELSE ParseString(text, i + 1, Append(acc, text[i]))

RECURSIVE DigitsEnd(_, _)
DigitsEnd(text, i) ==
    IF i <= Len(text) /\ text[i] \in Range(Digits) THEN DigitsEnd(text, i + 1) ELSE i

ParseNumber(text, i) ==
    LET from == IF text[i] = "-" THEN i + 1 ELSE i
        to == DigitsEnd(text, from)
        k == ParseInt(SubSeq(text, from, to - 1), 0)
    IN IF to = from THEN JBad ELSE JScalar(Num(IF from > i THEN -k ELSE k), to)

RECURSIVE ParseValue(_, _)
RECURSIVE ParseItems(_, _, _)
ParseValue(text, i) ==
    IF i > Len(text) THEN JBad
    ELSE CASE text[i] = Quote ->
                LET str == ParseString(text, i + 1, <<>>)
                IN IF str.ok THEN JScalar(Str(str.s), str.next) ELSE JBad
           [] text[i] = "[" ->
                IF i + 1 <= Len(text) /\ text[i + 1] = "]" THEN JArray(<<>>, i + 2)
                ELSE ParseItems(text, i + 1, <<>>)
           [] text[i] = "n" ->
                IF i + 3 <= Len(text) /\ SubSeq(text, i, i + 3) = <<"n", "u", "l", "l">>
                THEN JScalar(Null, i + 4) ELSE JBad
           [] text[i] \in Range(Digits) \cup {"-"} -> ParseNumber(text, i)
           [] OTHER -> JBad

ParseItems(text, i, acc) ==
    Only({IF ~item.ok \/ item.next > Len(text) THEN JBad
          ELSE IF text[item.next] = "," THEN ParseItems(text, item.next + 1, Append(acc, item))
          ELSE IF text[item.next] = "]" THEN JArray(Append(acc, item), item.next + 1)
          ELSE JBad : item \in {ParseValue(text, i)}})

\* The members of the object whose { precedes position i, up to its }.
RECURSIVE ParseMembers(_, _, _)
ParseMembers(text, i, acc) ==
    LET bad == [ok |-> FALSE, members |-> <<>>, next |-> 0]
        key == IF i <= Len(text) /\ text[i] = Quote THEN ParseString(text, i + 1, <<>>)
               ELSE [ok |-> FALSE, s |-> <<>>, next |-> 0]
        val(k) == IF k.ok /\ k.next <= Len(text) /\ text[k.next] = ":"
                  THEN ParseValue(text, k.next + 1) ELSE JBad
    IN Only({IF ~kv[2].ok \/ kv[2].next > Len(text) THEN bad
             ELSE IF text[kv[2].next] = ","
             THEN ParseMembers(text, kv[2].next + 1, Append(acc, [key |-> kv[1].s, val |-> kv[2]]))
             ELSE IF text[kv[2].next] = "}"
             THEN [ok |-> TRUE, members |-> Append(acc, [key |-> kv[1].s, val |-> kv[2]]),
                   next |-> kv[2].next + 1]
             ELSE bad : kv \in {<<k, val(k)>> : k \in {key}}})

\* loads(text) gave a dict: the whole text is one object.
loads(text) ==
    LET obj == ParseMembers(text, 2, <<>>)
    IN IF Len(text) >= 2 /\ text[1] = "{" /\ obj.ok /\ obj.next = Len(text) + 1
       THEN obj ELSE [ok |-> FALSE, members |-> <<>>, next |-> 0]

IsScalars(val) == val.k = "array" /\ \A k \in 1..Len(val.items) : val.items[k].k = "scalar"

\* pd.read_json(text, orient='split'): the text must be an object holding
\* columns, index and data of matching shape.
ReadSplit(obj) ==
    LET keys == {obj.members[k].key : k \in 1..Len(obj.members)}
        member(name) == (CHOOSE k \in 1..Len(obj.members) : obj.members[k].key = name)
        columns == obj.members[member(<<"c", "o", "l", "u", "m", "n", "s">>)].val
        index == obj.members[member(<<"i", "n", "d", "e", "x">>)].val
        data == obj.members[member(<<"d", "a", "t", "a">>)].val
        failed == [err |-> "ValueError", df |-> EmptyFrame]
    IN IF ~obj.ok \/ Len(obj.members) # 3
          \/ keys # {<<"c", "o", "l", "u", "m", "n", "s">>, <<"i", "n", "d", "e", "x">>,
                     <<"d", "a", "t", "a">>}
       THEN failed
       ELSE IF ~IsScalars(columns) \/ ~IsScalars(index) \/ data.k # "array"
               \/ Len(index.items) # Len(data.items)
               \/ (\E k \in 1..Len(columns.items) :
                      ~IsStr(columns.items[k].v) \/ Len(columns.items[k].v.s) # 1)
               \/ (\E k \in 1..Len(index.items) : ~IsNum(index.items[k].v))
               \/ (\E k \in 1..Len(data.items) :
                      ~IsScalars(data.items[k])
                      \/ Len(data.items[k].items) # Len(columns.items))
       THEN failed
       ELSE [err |-> "none",
             df |-> read_json([columns |-> [j \in 1..Len(columns.items) |-> columns.items[j].v.s[1]],
                               index |-> [k \in 1..Len(index.items) |-> index.items[k].v.n],
                               data |-> [k \in 1..Len(data.items) |->
                                           [j \in 1..Len(columns.items) |->
                                              data.items[k].items[j].v]]])]

read_json_text(text) == Only({ReadSplit(obj) : obj \in {loads(text)}})

(***************************************************************************)
(* server.py, decode_json: read the text; when that raises, unescape it,   *)
(* strip one pair of wrapping quotes and read again.                        *)
(***************************************************************************)
\* str.replace(old, new) for a two-character old: left to right, matches
\* not overlapping.
RECURSIVE replaceFrom(_, _, _, _)
replaceFrom(text, i, old, new) ==
    IF i > Len(text) THEN <<>>
    ELSE IF i < Len(text) /\ text[i] = old[1] /\ text[i + 1] = old[2]
    THEN new \o replaceFrom(text, i + 2, old, new)
    ELSE <<text[i]>> \o replaceFrom(text, i + 1, old, new)

replace(text, old, new) == Only({replaceFrom(str, 1, old, new) : str \in {text}})

\* json_str[1:-1] when json_str starts and ends with a quote
StripQuotes(text) ==
    IF Len(text) >= 1 /\ text[1] = Quote /\ text[Len(text)] = Quote
    THEN SubSeq(text, 2, Len(text) - 1) ELSE text

Unescape(text) ==
    StripQuotes(replace(replace(text, <<Backslash, Quote>>, <<Quote>>),
                        <<Backslash, Backslash>>, <<Backslash>>))

decode_json_no_retry(json_str) == read_json_text(json_str)

decode_json(json_str) ==
    Only({IF first.err = "none" THEN first ELSE read_json_text(Unescape(json_str)) :
            first \in {read_json_text(json_str)}})

\* src/tools/fetch_sheet.py, update_sheet: every backslash is removed and one
\* pair of wrapping quotes stripped before the text is read.
update_sheet_read(df_json) ==
    read_json_text(StripQuotes(SelectSeq(df_json, LAMBDA c : c # Backslash)))

(***************************************************************************)
(* A client's double encoding of a text: quotes escaped, the whole wrapped *)
(* in one pair of quotes.                                                   *)
(***************************************************************************)
EscapeQuotes(text) ==
    Flatten([k \in 1..Len(text) |-> IF text[k] = Quote THEN <<Backslash, Quote>> ELSE <<text[k]>>])

Wrap(text) == <<Quote>> \o text \o <<Quote>>

\* A client's JSON string encoding of a text: backslashes and quotes escaped
\* (json.dumps, JSON.stringify), the whole wrapped in one pair of quotes.
EscapeJson(text) ==
    Flatten([k \in 1..Len(text) |->
               IF text[k] \in {Quote, Backslash} THEN <<Backslash, text[k]>> ELSE <<text[k]>>])

(***************************************************************************)
(* The codec at work: a table is written with to_json, the text is         *)
(* possibly encoded once more or damaged on its way, and decode_json reads *)
(* what arrives.                                                            *)
(***************************************************************************)
CodecCells ==
    {Null, Num(1), Str(<<"1">>), Str(<<"x">>), Str(<<"/">>), Str(<<Quote>>), Str(<<"x", Quote>>),
     Str(<<"x", Backslash, "b">>), Str(<<"x", Backslash>>), Str(<<Backslash, Quote>>)}

CodecTables ==
    {DataFrame(<<nc[1]>>, [i \in 1..Len(nc[2]) |-> i - 1],
               [i \in 1..Len(nc[2]) |-> [c \in {nc[1]} |-> nc[2][i]]]) :
        nc \in {"a", Quote} \X UNION {[1..n -> CodecCells] : n \in 0..MaxRows}}

InitCodec ==
    codec \in {[stage |-> "table", t |-> t, text |-> <<>>, from |-> "none",
                out |-> NoResult, legacy |-> NoResult] : t \in CodecTables}

\* df.to_json(orient='split')
Encode ==
    /\ codec.stage = "table"
    /\ codec' = [codec EXCEPT !.stage = "encoded", !.text = to_json_text(codec.t)]
    /\ UNCHANGED <<opsVars, srvVars, sc>>

\* The client escapes the quotes of the text and wraps it in quotes.
DoubleEncode ==
    /\ codec.stage = "encoded"
    /\ codec' = [codec EXCEPT !.stage = "wrapped", !.text = Wrap(EscapeQuotes(codec.text))]
    /\ UNCHANGED <<opsVars, srvVars, sc>>

\* The client encodes the text as a JSON string.
StringEncode ==
    /\ codec.stage = "encoded"
    /\ codec' = [codec EXCEPT !.stage = "dumped", !.text = Wrap(EscapeJson(codec.text))]
    /\ UNCHANGED <<opsVars, srvVars, sc>>

\* The text loses its first or its last character.
Damage ==
    /\ codec.stage \in {"encoded", "wrapped", "dumped"}
    /\ \E k \in {1, Len(codec.text)} :
         codec' = [codec EXCEPT !.stage = "damaged",
                                !.text = SubSeq(codec.text, 1, k - 1)
                                         \o SubSeq(codec.text, k + 1, Len(codec.text))]
    /\ UNCHANGED <<opsVars, srvVars, sc>>

\* update_google_sheet: df = await self.decode_json(df_json); the legacy
\* update_sheet reads the same text its own way.
Decode ==
    /\ codec.stage \in {"encoded", "wrapped", "dumped", "damaged"}
    /\ codec' = [codec EXCEPT !.stage = "decoded", !.from = codec.stage,
                              !.out = decode_json(codec.text),
                              !.legacy = update_sheet_read(codec.text)]
    /\ UNCHANGED <<opsVars, srvVars, sc>>

NextCodec == Encode \/ DoubleEncode \/ StringEncode \/ Damage \/ Decode

InitCodecOnly == InitCodec /\ OpsIdle /\ SrvIdle /\ ChainIdle

SpecCodec == InitCodecOnly /\ [][NextCodec]_vars

(***************************************************************************)
(* A client chaining operations on the table columns [id, name, score],    *)
(* rows (1, a, 10), (2, b, 20): every operation's output is written as     *)
(* split JSON text and read back with decode_json before the next one.     *)
(***************************************************************************)
Rec3(id, name, score) ==
    [c \in {"id", "name", "score"} |->
        CASE c = "id" -> Num(id) [] c = "name" -> Str(<<name>>) [] OTHER -> Num(score)]

ChainTable ==
    DataFrame(<<"id", "name", "score">>, <<0, 1>>, <<Rec3(1, "a", 10), Rec3(2, "b", 20)>>)

ChainCalls ==
    {[op |-> "add_row", row_data |-> Rec3(3, "c", 30)]}
    \cup {[op |-> "edit_row", row_identifier |-> Dict1("id", Num(k)),
           updated_data |-> Dict1("score", Num(99))] : k \in 1..3}
    \cup {[op |-> "delete_row", row_identifier |-> Dict1("id", Num(k))] : k \in 1..2}
    \cup {[op |-> "add_column", new_column_name |-> "total", formula |-> f,
           reference_columns |-> <<"id", "score">>, params |-> NoParams] :
            f \in {"sum", "subtract"}}

\* The text an operation returned for the table t, or its error.
ChainResult(call, t) ==
    LET row == CASE call.op = "add_row" -> add_data(to_json(t), call.row_data)
                 [] call.op = "edit_row" ->
                      edit_data(to_json(t), call.row_identifier, call.updated_data)
                 [] OTHER -> delete_data(to_json(t), call.row_identifier)
        col == add_column(OneFrame(t), 1, call.new_column_name, call.formula,
                          call.reference_columns, call.params)
    IN IF call.op = "add_column"
       THEN [err |-> col.err,
             text |-> IF col.err = "none" THEN to_json_text(col.heap[col.ref]) ELSE <<>>]
       ELSE [err |-> row.err, text |-> IF row.err = "none" THEN dumps(row.json) ELSE <<>>]

InitChain == sc = [t |-> ChainTable, trace |-> <<>>, err |-> "none"]

\* One operation on the table held; on success the client holds what
\* decode_json reads from the returned text.
ChainStep(call) ==
    /\ Len(sc.trace) < MaxSteps
    /\ sc.err = "none"
    /\ \E r \in {ChainResult(call, sc.t)} :
         \E d \in {IF r.err = "none" THEN decode_json(r.text)
                   ELSE [err |-> r.err, df |-> sc.t]} :
            sc' = [t |-> IF d.err = "none" THEN d.df ELSE sc.t,
                   trace |-> Append(sc.trace, call),
                   err |-> d.err]
    /\ UNCHANGED <<opsVars, srvVars, codec>>

ChainAddRow == \E call \in ChainCalls : call.op = "add_row" /\ ChainStep(call)

ChainEditRow == \E call \in ChainCalls : call.op = "edit_row" /\ ChainStep(call)

ChainDeleteRow == \E call \in ChainCalls : call.op = "delete_row" /\ ChainStep(call)

ChainAddColumn == \E call \in ChainCalls : call.op = "add_column" /\ ChainStep(call)

NextChain == ChainAddRow \/ ChainEditRow \/ ChainDeleteRow \/ ChainAddColumn

InitChainOnly == InitChain /\ OpsIdle /\ SrvIdle /\ CodecIdle

SpecChain == InitChainOnly /\ [][NextChain]_vars

(***************************************************************************)
(* The specification's reading of a table and of a row identifier.         *)
(***************************************************************************)
NoDuplicates(seq) == \A i, j \in DOMAIN seq : seq[i] = seq[j] => i = j

\* I1: no duplicate column names.  I2: every record's keys are the columns.
ValidTable(f) ==
    /\ NoDuplicates(f.columns)
    /\ \A i \in DOMAIN f.rows : DOMAIN f.rows[i] = Range(f.columns)

\* A record satisfies an identifier when it holds the given value in every
\* given column.
Satisfies(rec, identifier) ==
    \A c \in DOMAIN identifier : c \in DOMAIN rec /\ rec[c] = identifier[c]

Matching(f, identifier) == {i \in DOMAIN f.rows : Satisfies(f.rows[i], identifier)}

AllColumns(f, dict) == \A c \in DOMAIN dict : c \in Range(f.columns)

Succeeded == last.op # "none" /\ last.err = "none"

(***************************************************************************)
(* C3.  From a table with unique column names whose records have exactly   *)
(* the columns as keys, every table reached through add_row, edit_row,     *)
(* delete_row, add_column, rename_column and transform_column has unique   *)
(* column names (I1) and records keyed exactly by its columns (I2): the    *)
(* table the caller holds, and the table each successful operation         *)
(* returned.                                                               *)
(***************************************************************************)
C3_TableInvariants ==
    /\ ValidTable(heap[cur])
    /\ Succeeded => ValidTable(last.out)

\* Two successful operations in a row, the second a rename of a table that
\* the first gave a third column.
C3_Witness ==
    /\ nops = 2
    /\ Succeeded
    /\ last.op = "rename_column"
    /\ Len(last.tbl.columns) = 3
    /\ Len(last.out.rows) > 0

(***************************************************************************)
(* C4.  An operation leaves the table it was given as it was, whether it   *)
(* returns or raises: the caller's frame holds after the call the columns, *)
(* rows and values it held before, and a returned table is another object. *)
(***************************************************************************)
C4_InputUnchanged ==
    last.op # "none" =>
        /\ heap[last.inp] = last.before
        /\ last.err = "none" => cur # last.inp

\* add_column has returned a table with the new column: the case in which
\* the operation assigns into a frame.
C4_Witness ==
    /\ Succeeded
    /\ last.op = "add_column"
    /\ Len(last.out.rows) > 0
    /\ last.out # last.before

IsRowOp == last.op \in {"edit_row", "delete_row"}

CheckedDicts ==
    IF last.op = "edit_row" THEN {last.args.row_identifier, last.args.updated_data}
    ELSE {last.args.row_identifier}

\* C7 as claimed: RowNotFound whenever the identifier's columns all exist and
\* no record satisfies it; ColumnNotFound whenever a key of the identifier
\* (or, for edit, of updatedData) is not a column; no table in either case.
C7_Original ==
    IsRowOp =>
        /\ (AllColumns(last.tbl, last.args.row_identifier)
              /\ Matching(last.tbl, last.args.row_identifier) = {})
             => (last.err = "RowNotFound" /\ last.out = EmptyFrame)
        /\ (\E dict \in CheckedDicts : ~AllColumns(last.tbl, dict))
             => (last.err = "ColumnNotFound" /\ last.out = EmptyFrame)

\* C7 amended: RowNotFound whenever every checked column exists (the
\* identifier's and, for edit, updatedData's) and no record satisfies the
\* identifier; ColumnNotFound whenever a checked key is not a column, matching
\* rows or not; no table in either case.
C7_ErrorPrecedence ==
    IsRowOp =>
        /\ ((\A dict \in CheckedDicts : AllColumns(last.tbl, dict))
              /\ Matching(last.tbl, last.args.row_identifier) = {})
             => (last.err = "RowNotFound" /\ last.out = EmptyFrame)
        /\ (\E dict \in CheckedDicts : ~AllColumns(last.tbl, dict))
             => (last.err = "ColumnNotFound" /\ last.out = EmptyFrame)

\* An edit whose identifier matches a row and whose updatedData names a
\* missing column: the column error, although a row matches.
C7_Witness ==
    /\ last.op = "edit_row"
    /\ last.err = "ColumnNotFound"
    /\ AllColumns(last.tbl, last.args.row_identifier)
    /\ Matching(last.tbl, last.args.row_identifier) # {}

RecognisedFormulas == {"concat", "sum", "multiply", "divide", "subtract"}

RecognisedTransformations == {"uppercase", "lowercase", "round", "format_date"}

\* The call fails validation against the table df: a named column is missing,
\* a new name is taken, no record matches, the reference columns are the
\* wrong number, or the formula or transformation is not recognised.
InvalidCall(tool, df) ==
    LET columns == Range(df.columns)
        matches(id) == \E i \in 1..Len(df.rows) : \A c \in DOMAIN id : CellEq(df.rows[i][c], id[c])
    IN CASE tool.name = "add_row" -> ~(DOMAIN tool.row_data \subseteq columns)
         [] tool.name = "edit_row" ->
              \/ ~(DOMAIN tool.row_identifier \subseteq columns)
              \/ ~(DOMAIN tool.updated_data \subseteq columns)
              \/ ~matches(tool.row_identifier)
         [] tool.name = "delete_row" ->
              \/ ~(DOMAIN tool.row_identifier \subseteq columns)
              \/ ~matches(tool.row_identifier)
         [] tool.name = "add_sheet_column" ->
              \/ ~(Range(tool.reference_columns) \subseteq columns)
              \/ tool.new_column_name \in columns
              \/ tool.formula \in {"divide", "subtract"} /\ Len(tool.reference_columns) # 2
              \/ tool.formula \notin RecognisedFormulas
         [] tool.name = "rename_sheet_column" ->
              tool.old_name \notin columns \/ tool.new_name \in columns
         [] tool.name = "transform_sheet_column" ->
              tool.column_name \notin columns \/ tool.transformation \notin RecognisedTransformations
         [] OTHER -> FALSE

\* The call of client p has run its operation on the table it fetched.
Operated(p) ==
    /\ cl[p].tool.name \in MutatingTools
    /\ \/ cl[p].pc \in {"clear", "update"}
       \/ cl[p].pc = "idle" /\ cl[p].ret \notin {"none", "GSpreadException"}

\* The write requests client p's call has made, and whether they are the only
\* ones made since the call began.
OwnWrites(p) == (IF cl[p].clearAt > 0 THEN 1 ELSE 0) + (IF cl[p].updateAt > 0 THEN 1 ELSE 0)

Alone(p) == writes = cl[p].startAt + OwnWrites(p)

\* Client p's call has written its table and returned.
Wrote(p) == cl[p].pc = "idle" /\ cl[p].updateAt > 0

\* p and q both fetched before either made a write request, both wrote, and
\* q's write is the later one.
StaleRace(p, q) ==
    /\ p # q
    /\ Wrote(p) /\ Wrote(q)
    /\ cl[p].fetchAt < cl[q].clearAt /\ cl[p].fetchAt < cl[p].clearAt
    /\ cl[q].fetchAt < cl[p].clearAt /\ cl[q].fetchAt < cl[q].clearAt
    /\ cl[p].updateAt < cl[q].updateAt
    /\ writes = cl[q].updateAt

\* The later call's result, computed from nothing but its own snapshot, is
\* the sheet, and both calls returned True.
LaterWins(p, q) ==
    /\ sheet = all_values(Handler(cl[q].tool, cl[q].df).df)
    /\ cl[p].ret = "True" /\ cl[q].ret = "True"

(***************************************************************************)
(* C1: the fetch -> mutate -> write cycle is not atomic.  Whenever two      *)
(* calls both fetch before either writes and the later one writes after    *)
(* the earlier one has written, the sheet ends up holding only the later   *)
(* writer's table, derived from its stale snapshot: the earlier writer's   *)
(* change is lost although both calls returned True.  (The witness is such *)
(* an interleaving of two add_row calls.)                                  *)
(***************************************************************************)
C1_LostUpdate ==
    \A p, q \in Clients :
        StaleRace(p, q) /\ cl[p].updateAt < cl[q].clearAt => LaterWins(p, q)

\* Two add_row calls raced, both returned True, and the row of the first
\* writer is not on the sheet.
C1_Witness ==
    \E p, q \in Clients :
        /\ StaleRace(p, q) /\ cl[p].updateAt < cl[q].clearAt
        /\ cl[p].tool = [name |-> "add_row", row_data |-> Rec2(Num(7), Num(7))]
        /\ cl[q].tool = [name |-> "add_row", row_data |-> Rec2(Num(8), Num(8))]
        /\ cl[p].ret = "True" /\ cl[q].ret = "True"
        /\ \A i \in 1..Len(sheet) : sheet[i] # <<Num(7), Num(7)>>
        /\ \E i \in 1..Len(sheet) : sheet[i] = <<Num(8), Num(8)>>

(***************************************************************************)
(* C2: a call that fails validation against the table it fetched raises an *)
(* error to the client, makes no write request, builds no table, and, when *)
(* no other call wrote meanwhile, leaves the sheet as it was when the call *)
(* began.                                                                   *)
(***************************************************************************)
C2_InvalidCallNoWrite ==
    \A p \in Clients :
        Operated(p) /\ InvalidCall(cl[p].tool, cl[p].df) =>
            /\ cl[p].pc = "idle"
            /\ cl[p].ret \notin {"none", "True", "json"}
            /\ cl[p].clearAt = 0 /\ cl[p].updateAt = 0
            /\ cl[p].updated_df = EmptyFrame
            /\ writes = cl[p].startAt => sheet = cl[p].sheet0

\* An edit_row whose identifier matches no row of a non-empty sheet has been
\* refused with RowNotFound.
C2_Witness ==
    \E p \in Clients :
        /\ Operated(p) /\ InvalidCall(cl[p].tool, cl[p].df)
        /\ cl[p].tool.name = "edit_row"
        /\ cl[p].ret = "RowNotFound"
        /\ Len(cl[p].df.rows) = 2
        /\ sheet = cl[p].sheet0 /\ Len(sheet) = 3

(***************************************************************************)
(* C9, as stated: a write is all-or-nothing.  A call that returned True    *)
(* left the sheet holding exactly its new table; a call whose write failed *)
(* left the sheet as it was before the call (no other call having written  *)
(* meanwhile); and no fetch sees the sheet between the two.                *)
(***************************************************************************)
C9_AllOrNothing ==
    \A p \in Clients :
        /\ Wrote(p) /\ Alone(p) => sheet = all_values(cl[p].updated_df)
        /\ cl[p].pc = "idle" /\ cl[p].ret = "APIError" /\ cl[p].tool.name \in MutatingTools
             /\ Alone(p) => sheet = cl[p].sheet0
        /\ ~cl[p].torn

(***************************************************************************)
(* The specification's reading of decode, for the codec's claims.          *)
(***************************************************************************)
\* What decode gives for encode(t).
DirectDecode == decode_json(to_json_text(codec.t))

\* No column name and no cell of t holds a backslash.
NoBackslash(t) ==
    /\ Backslash \notin Range(t.columns)
    /\ \A i \in 1..Len(t.rows) : \A c \in Range(t.columns) :
          Backslash \notin Range(t.rows[i][c].s)

\* The text parses neither as it is nor after the unescape-and-strip retry.
RetryFails(text) ==
    /\ read_json_text(text).err # "none"
    /\ read_json_text(Unescape(text)).err # "none"

DecodeOfEncode ==
    codec.from = "encoded" =>
        /\ codec.out.err = "none"
        /\ codec.out.df = read_json(to_json(codec.t))

DecodeFailure ==
    RetryFails(codec.text) => codec.out.err # "none" /\ codec.out.df = EmptyFrame

C11_RoundTrip ==
    codec.stage = "decoded" /\ codec.from = "encoded" =>
        /\ codec.out.err = "none"
        /\ codec.out.df.columns = codec.t.columns
        /\ Len(codec.out.df.rows) = Len(codec.t.rows)
        /\ \A i \in 1..Len(codec.t.rows) : \A c \in Range(codec.t.columns) :
              codec.out.df.rows[i][c] = codec.t.rows[i][c]

(***************************************************************************)
(* C12, as stated: the wire text an operation returns has its index field  *)
(* equal to 0..N-1, N the number of data rows: after delete_row removed    *)
(* rows from the front or the middle and after add_row appended one, the   *)
(* index is regenerated and does not carry the rows' old positions.        *)
(***************************************************************************)
C12_IndexRegenerated ==
    Succeeded =>
        to_json(last.out).index = [i \in 1..Len(to_json(last.out).data) |-> i - 1]

(***************************************************************************)
(* The specification's reading of add_column with divide or subtract.      *)
(***************************************************************************)
\* The last operation was add_column with divide or subtract, on existing
\* reference columns, under a new name.
ArityCase ==
    /\ last.op = "add_column"
    /\ last.args.formula \in {"divide", "subtract"}
    /\ Range(last.args.reference_columns) \subseteq Range(last.tbl.columns)
    /\ last.args.new_column_name \notin Range(last.tbl.columns)

WrongArity == Len(last.args.reference_columns) \in {1, 3}

\* Some reference column holds a string.
StringOperand ==
    \E i \in 1..Len(last.tbl.rows) : \E c \in Range(last.args.reference_columns) :
        IsStr(last.tbl.rows[i][c])

RefusedArity == last.err = "InvalidArgument" /\ last.out = EmptyFrame

\* The table came back with the new column last and the rest as it was.
ColumnAppended ==
    /\ last.err = "none"
    /\ last.out.columns = Append(last.tbl.columns, last.args.new_column_name)
    /\ Len(last.out.rows) = Len(last.tbl.rows)
    /\ \A i \in 1..Len(last.tbl.rows) : \A c \in Range(last.tbl.columns) :
          last.out.rows[i][c] = last.tbl.rows[i][c]

FailedUnchanged(kind) ==
    /\ last.err = kind
    /\ last.out = EmptyFrame
    /\ cur = last.inp
    /\ heap[cur] = last.before

\* The table came back with old_name's column under new_name, where it stood.
Renamed(old_name, new_name) ==
    /\ last.err = "none"
    /\ Len(last.out.columns) = Len(last.tbl.columns)
    /\ \A j \in 1..Len(last.tbl.columns) :
          last.out.columns[j] = IF last.tbl.columns[j] = old_name THEN new_name
                                ELSE last.tbl.columns[j]
    /\ Len(last.out.rows) = Len(last.tbl.rows)
    /\ \A i \in 1..Len(last.tbl.rows) : \A j \in 1..Len(last.tbl.columns) :
          last.out.rows[i][last.out.columns[j]] = last.tbl.rows[i][last.tbl.columns[j]]

(***************************************************************************)
(* C14: rename_column of an existing column to the name of a different     *)
(* existing column fails with ColumnAlreadyExists and the table is         *)
(* unchanged; of a missing old name it fails with ColumnNotFound; a        *)
(* successful rename keeps the column where it stood, keeps the number of  *)
(* columns and keeps every record's values, re-keyed under the new name.   *)
(***************************************************************************)
C14_Rename ==
    last.op = "rename_column" =>
        LET old_name == last.args.old_name
            new_name == last.args.new_name
            columns == Range(last.tbl.columns)
        IN /\ old_name \in columns /\ new_name \in columns /\ new_name # old_name =>
                 FailedUnchanged("ColumnAlreadyExists")
           /\ old_name \notin columns => FailedUnchanged("ColumnNotFound")
           /\ last.err = "none" => Renamed(old_name, new_name)
           /\ old_name \in columns /\ new_name \notin columns => last.err = "none"

\* The first column of a table with rows was renamed to a new name.
C14_Witness ==
    /\ last.op = "rename_column"
    /\ last.args = [old_name |-> "a", new_name |-> "d"]
    /\ Renamed("a", "d")
    /\ last.tbl.columns[1] = "a"
    /\ last.out.columns[1] = "d"
    /\ Len(last.out.columns) >= 2
    /\ Len(last.out.rows) >= 2

(***************************************************************************)
(* C15, as stated: rename_column of an existing column to its own name is  *)
(* a no-op success: it returns a table equal to its input and does not     *)
(* fail with ColumnAlreadyExists.                                          *)
(***************************************************************************)
C15_SelfRename ==
    /\ last.op = "rename_column"
    /\ last.args.new_name = last.args.old_name
    /\ last.args.old_name \in Range(last.tbl.columns)
    => /\ last.err = "none"
       /\ last.out.columns = last.tbl.columns
       /\ last.out.rows = last.tbl.rows

(***************************************************************************)
(* The specification's worked example.                                      *)
(***************************************************************************)
AddRow3 == [op |-> "add_row", row_data |-> Rec3(3, "c", 30)]

Edit2 == [op |-> "edit_row", row_identifier |-> Dict1("id", Num(2)),
          updated_data |-> Dict1("score", Num(99))]

Delete1 == [op |-> "delete_row", row_identifier |-> Dict1("id", Num(1))]

AddTotal == [op |-> "add_column", new_column_name |-> "total", formula |-> "sum",
             reference_columns |-> <<"id", "score">>, params |-> NoParams]

\* The client holds the table with these columns and rows, the last call
\* having succeeded.
Holds(columns, rows) == sc.err = "none" /\ sc.t.columns = columns /\ sc.t.rows = rows

WithTotal(rec, total) ==
    [c \in {"id", "name", "score", "total"} |-> IF c = "total" THEN Num(total) ELSE rec[c]]

(***************************************************************************)
(* C16: from columns [id, name, score] with rows (1, a, 10), (2, b, 20),   *)
(* add_row of (3, c, 30) gives three rows with that row last; on the       *)
(* original table edit_row({id: 2}, {score: 99}) gives (1, a, 10),         *)
(* (2, b, 99); then delete_row({id: 1}) gives the single row (2, b, 99);   *)
(* then add_column(total, sum, [id, score]) gives that row with            *)
(* total = 101 as the last column.  Each step works on the previous        *)
(* step's output as encoded and decoded.                                   *)
(***************************************************************************)
C16_Scenario ==
    /\ sc.trace = <<AddRow3>> =>
          Holds(<<"id", "name", "score">>,
                <<Rec3(1, "a", 10), Rec3(2, "b", 20), Rec3(3, "c", 30)>>)
    /\ sc.trace = <<Edit2>> =>
          Holds(<<"id", "name", "score">>, <<Rec3(1, "a", 10), Rec3(2, "b", 99)>>)
    /\ sc.trace = <<Edit2, Delete1>> =>
          Holds(<<"id", "name", "score">>, <<Rec3(2, "b", 99)>>)
    /\ sc.trace = <<Edit2, Delete1, AddTotal>> =>
          Holds(<<"id", "name", "score", "total">>, <<WithTotal(Rec3(2, "b", 99), 101)>>)

\* The whole sequence has run and the client holds the row with total 101.
C16_Witness ==
    /\ sc.trace = <<Edit2, Delete1, AddTotal>>
    /\ sc.err = "none"
    /\ Len(sc.t.rows) = 1
    /\ sc.t.rows[1]["total"] = Num(101)
    /\ sc.t.columns[4] = "total"

(***************************************************************************)
(* C17: an identifier without column/value pairs matches every record.  On *)
(* a table with at least one row, edit_row with an empty identifier (and   *)
(* updatedData naming columns of the table) overwrites the updatedData     *)
(* columns in all rows, and delete_row with an empty identifier removes    *)
(* all rows and leaves the columns; on a table with no rows both fail with *)
(* RowNotFound.                                                            *)
(***************************************************************************)
C17_EmptyIdentifier ==
    /\ last.op \in {"edit_row", "delete_row"}
    /\ DOMAIN last.args.row_identifier = {}
    /\ last.op = "edit_row" => DOMAIN last.args.updated_data \subseteq Range(last.tbl.columns)
    => /\ Len(last.tbl.rows) = 0 => last.err = "RowNotFound" /\ last.out = EmptyFrame
       /\ Len(last.tbl.rows) > 0 /\ last.op = "edit_row" =>
             /\ last.err = "none"
             /\ last.out.columns = last.tbl.columns
             /\ Len(last.out.rows) = Len(last.tbl.rows)
             /\ \A i \in 1..Len(last.tbl.rows) : \A c \in Range(last.tbl.columns) :
                   last.out.rows[i][c] = IF c \in DOMAIN last.args.updated_data
                                         THEN last.args.updated_data[c]
                                         ELSE last.tbl.rows[i][c]
       /\ Len(last.tbl.rows) > 0 /\ last.op = "delete_row" =>
             /\ last.err = "none"
             /\ last.out.columns = last.tbl.columns
             /\ last.out.rows = <<>>

\* An edit_row with an empty identifier has overwritten column b in all
\* three rows of a table.
C17_Witness ==
    /\ last.op = "edit_row"
    /\ DOMAIN last.args.row_identifier = {}
    /\ last.args.updated_data = Dict1("b", Num(9))
    /\ last.err = "none"
    /\ Len(last.tbl.rows) = 3
    /\ \A i \in 1..3 : last.out.rows[i]["b"] = Num(9) /\ last.tbl.rows[i]["b"] # Num(9)

====
